---- MODULE Spec2Model ----
(***************************************************************************)
(* Model of the MIDI container decoder of src/src/midi.rs:                 *)
(* the Chunker cursor (claim, claim_as, done), the chunk loop and the      *)
(* header decoding of MidiFile::read, the Format, Division and SmpteFormat *)
(* conversions and the chunk type classification.                          *)
(*                                                                         *)
(* A byte is a natural in 0..255, a buffer a sequence of bytes.  Sequences *)
(* are 1-based here, so the Rust slice buffer[a..b] is SubSeq(buffer,      *)
(* a + 1, b).                                                              *)
(***************************************************************************)
EXTENDS Integers, Sequences, FiniteSets, TLC

(***************************************************************************)
(* Bounds of the explored input family.                                    *)
(***************************************************************************)
\* number of chunks that follow chunk 0 in a generated file
MaxTracks == 1
\* payload length of a chunk that follows chunk 0
MaxDataLen == 1
\* payload length of chunk 0
MaxHeaderLen == 6

Min(a, b) == IF a <= b THEN a ELSE b

(***************************************************************************)
(* Integer types of the fold in Chunker::claim_as.  u32 is instantiated at *)
(* lines 31-32, u16 at line 42, usize at line 44 and i16 at line 60.       *)
(***************************************************************************)
\* 2^(bits - 8) of the accumulator type; usize is 64 bits wide, and no
\* value of the program (at most two bytes are folded into it) comes near
\* 2^56, so its arithmetic is the unbounded one.
HighMod(T) ==
    CASE T = "u16" -> 256
      [] T = "i16" -> 256
      [] T = "u32" -> 16777216

\* reinterpretation of a 16-bit pattern 0..65535 as a two's complement i16
ToI16(u) == IF u >= 32768 THEN u - 65536 ELSE u

\* value <<= 8 : the bits shifted out are lost, no overflow check in Rust
Shl8(v, T) ==
    CASE T = "usize" -> v * 256
      [] T = "i16"   -> ToI16(((v % 256) * 256) % 65536)
      [] OTHER       -> (v % HighMod(T)) * 256

\* does value += T::from(byte) leave the range of T
AddOverflows(v, b, T) ==
    CASE T = "usize" -> FALSE
      [] T = "i16"   -> v + b > 32767
      [] OTHER       -> (v \div 256 = HighMod(T) - 1) /\ ((v % 256) + b > 255)

\* value += T::from(byte), wrapped to the width of T
AddWrap(v, b, T) ==
    CASE T = "usize" -> v + b
      [] T = "i16"   -> ToI16((v + b) % 65536)
      [] OTHER       -> IF AddOverflows(v, b, T)
                        THEN (v % 256) + b - 256
                        ELSE v + b

\* the loop of claim_as over the claimed slice, most significant byte first
RECURSIVE Fold(_, _, _, _)
Fold(slice, i, acc, T) ==
    IF i > Len(slice)
    THEN acc
    ELSE LET shifted == Shl8(acc.value, T)
         IN  Fold(slice, i + 1,
                  [value    |-> AddWrap(shifted, slice[i], T),
                   overflow |-> acc.overflow \/ AddOverflows(shifted, slice[i], T)],
                  T)

(***************************************************************************)
(* Chunker                                                                 *)
(***************************************************************************)
done(pos, buf) == pos >= Len(buf)

\* claim that refuses a request that overruns the buffer instead of clamping it
claimStrict(pos, buf, bytes) ==
    IF done(pos, buf) \/ pos + bytes > Len(buf)
    THEN [ok |-> FALSE, slice |-> << >>, position |-> pos]
    ELSE [ok |-> TRUE, slice |-> SubSeq(buf, pos + 1, pos + bytes),
          position |-> pos + bytes]

\* claim without the assignment self.position = next
claimNoAdvance(pos, buf, bytes) ==
    IF done(pos, buf)
    THEN [ok |-> FALSE, slice |-> << >>, position |-> pos]
    ELSE LET next == Min(pos + bytes, Len(buf))
         IN  [ok |-> TRUE, slice |-> SubSeq(buf, pos + 1, next), position |-> pos]

\* claim without the early return on an exhausted cursor
claimNoDoneCheck(pos, buf, bytes) ==
    LET next == Min(pos + bytes, Len(buf))
    IN  [ok |-> TRUE, slice |-> SubSeq(buf, pos + 1, next), position |-> next]

claim(pos, buf, bytes) ==
    IF done(pos, buf)
    THEN [ok |-> FALSE, slice |-> << >>, position |-> pos]
    ELSE LET next == Min(pos + bytes, Len(buf))
         IN  [ok |-> TRUE, slice |-> SubSeq(buf, pos + 1, next), position |-> next]

claim_as(pos, buf, bytes, T) ==
    LET c == claim(pos, buf, bytes)
        f == Fold(c.slice, 1, [value |-> 0, overflow |-> FALSE], T)
    IN  [ok |-> c.ok, value |-> f.value, overflow |-> f.overflow,
         position |-> c.position]

(***************************************************************************)
(* Chunk::type_str, Chunk::type_variant, ChunkType                         *)
(***************************************************************************)
MThd == <<77, 84, 104, 100>>
MTrk == <<77, 84, 114, 107>>
\* "MTrK": differs from "MTrk" in the case of the last letter only
MTrK == <<77, 84, 114, 75>>

Reverse(s) == [i \in 1..Len(s) |-> s[Len(s) + 1 - i]]

\* chars[i] = temp & 0xFF; temp >>= 8, for i in 0..4, then reversed
type_str(type) ==
    Reverse(<<type % 256, (type \div 256) % 256,
              (type \div 65536) % 256, (type \div 16777216) % 256>>)

type_variant(type) ==
    LET s == type_str(type)
    IN  IF s = MThd THEN "Header"
        ELSE IF s = MTrk THEN "Track"
        ELSE "Err"

\* the filter with unwrap_or(true): a chunk that fails classification counts
RECURSIVE TrackCountUnwrapTrue(_)
TrackCountUnwrapTrue(cs) ==
    IF cs = << >> THEN 0
    ELSE (IF type_variant(Head(cs).type) \in {"Track", "Err"} THEN 1 ELSE 0)
         + TrackCountUnwrapTrue(Tail(cs))

\* the filter over chunks.iter().skip(1)
TrackCountSkipFirst(cs) ==
    Cardinality({i \in 2..Len(cs) : type_variant(cs[i].type) = "Track"})

\* chunks.iter().filter(type_variant == Ok(Track)).count()
RECURSIVE TrackCount(_)
TrackCount(cs) ==
    IF cs = << >> THEN 0
    ELSE (IF type_variant(Head(cs).type) = "Track" THEN 1 ELSE 0)
         + TrackCount(Tail(cs))

(***************************************************************************)
(* Format, Division, SmpteFormat                                           *)
(***************************************************************************)
FormatTryFrom(value) ==
    CASE value = 0 -> [ok |-> TRUE, format |-> "MultiChannel"]
      [] value = 1 -> [ok |-> TRUE, format |-> "Simultaneous"]
      [] value = 2 -> [ok |-> TRUE, format |-> "Independent"]
      [] OTHER     -> [ok |-> FALSE, format |-> "None"]

SmpteFormatTryFrom(value) ==
    CASE value = -24 -> [ok |-> TRUE, smpte_format |-> "Fps24"]
      [] value = -25 -> [ok |-> TRUE, smpte_format |-> "Fps25"]
      [] value = -29 -> [ok |-> TRUE, smpte_format |-> "Fps30Drop"]
      [] value = -30 -> [ok |-> TRUE, smpte_format |-> "Fps30"]
      [] OTHER       -> [ok |-> FALSE, smpte_format |-> "None"]

NoDivision == [kind |-> "None", smpte_format |-> "None", ticks |-> 0]

\* the shift done on the unsigned bit pattern (a logical shift)
DivisionTryFromLogicalShift(value) ==
    IF value >= 0
    THEN [ok |-> TRUE,
          division |-> [kind |-> "Metrical", smpte_format |-> "None",
                        ticks |-> value]]
    ELSE LET s == SmpteFormatTryFrom((value + 65536) \div 256)
         IN  IF s.ok
             THEN [ok |-> TRUE,
                   division |-> [kind |-> "TimeCode",
                                 smpte_format |-> s.smpte_format,
                                 ticks |-> value % 256]]
             ELSE [ok |-> FALSE, division |-> NoDivision]

\* value >> 8 on i16 is the arithmetic shift (floor division by 256),
\* value & 0xFF the low eight bits of the two's complement pattern
DivisionTryFrom(value) ==
    IF value >= 0
    THEN [ok |-> TRUE,
          division |-> [kind |-> "Metrical", smpte_format |-> "None",
                        ticks |-> value]]
    ELSE LET s == SmpteFormatTryFrom(value \div 256)
         IN  IF s.ok
             THEN [ok |-> TRUE,
                   division |-> [kind |-> "TimeCode",
                                 smpte_format |-> s.smpte_format,
                                 ticks |-> value % 256]]
             ELSE [ok |-> FALSE, division |-> NoDivision]

(***************************************************************************)
(* The input family: files made of chunk 0 and up to MaxTracks further     *)
(* chunks, cut at any byte.                                                *)
(***************************************************************************)
BE32(n) == <<n \div 16777216, (n \div 65536) % 256, (n \div 256) % 256, n % 256>>

Encode(tag, data) == tag \o BE32(Len(data)) \o data

\* tags of chunk 0 and of the chunks after it
HeaderTags == {MThd, MTrk}
TrackTags == {MTrk, MTrK}

FormatFields == {<<0, 1>>, <<0, 3>>}
NtrksFields == {<<0, 0>>, <<0, 1>>, <<0, 2>>}
DivisionFields == {<<0, 96>>, <<226, 40>>, <<128, 7>>}

Zeros(n) == [i \in 1..n |-> 0]

HeaderPayloads ==
    {SubSeq(f \o n \o d \o Zeros(MaxHeaderLen), 1, l) :
        f \in FormatFields, n \in NtrksFields, d \in DivisionFields,
        l \in 0..MaxHeaderLen}

TrackChunks == {Encode(t, Zeros(l)) : t \in TrackTags, l \in 0..MaxDataLen}

RECURSIVE TrackSeqs(_)
TrackSeqs(k) ==
    IF k = 0 THEN {<< >>}
    ELSE LET shorter == TrackSeqs(k - 1)
         IN  shorter \cup {s \o c : s \in shorter, c \in TrackChunks}

Files == {Encode(t, h) \o s : t \in HeaderTags, h \in HeaderPayloads, s \in TrackSeqs(MaxTracks)}

Buffers == UNION {{SubSeq(f, 1, n) : n \in 0..Len(f)} : f \in Files}

(***************************************************************************)
(* MidiFile::read                                                          *)
(***************************************************************************)
VARIABLES
    buffer,           \* the file contents
    position,         \* chunker.position
    chunks,           \* the Vec of Chunk { type, data }
    r_type,           \* r#type of the chunk being read
    length,           \* length of the chunk being read
    header_chunker,   \* header_chunker: position, buffer, and whether line 41 ran
    format,           \* the decoded Format
    division,         \* the decoded Division
    outcome,          \* "Running", "Ok" or the error returned
    pc                \* the statement MidiFile::read is at

vars == <<buffer, position, chunks, r_type, length, header_chunker,
          format, division, outcome, pc>>

NoChunker == [exists |-> FALSE, position |-> 0, buffer |-> << >>]

\* Chunker::new
ChunkerNew(buf) == [exists |-> TRUE, position |-> 0, buffer |-> buf]

Start(buf) ==
    /\ buffer = buf
    /\ position = 0
    /\ chunks = << >>
    /\ r_type = 0
    /\ length = 0
    /\ header_chunker = NoChunker
    /\ format = "None"
    /\ division = NoDivision
    /\ outcome = "Running"
    /\ pc = "loop"

Init == \E buf \in Buffers : Start(buf)

Fail(error) ==
    /\ outcome' = error
    /\ pc' = "done"

\* line 31: the loop condition held, the tag is claimed
ReadType ==
    /\ pc = "loop"
    /\ ~done(position, buffer)
    /\ LET c == claim_as(position, buffer, 4, "u32")
       IN  IF ~c.ok
           THEN Fail("ChunkerDone") /\ UNCHANGED <<position, r_type>>
           ELSE IF c.overflow
           THEN Fail("ArithmeticOverflow") /\ UNCHANGED r_type
                /\ position' = c.position
           ELSE /\ r_type' = c.value
                /\ position' = c.position
                /\ pc' = "length"
                /\ UNCHANGED outcome
    /\ UNCHANGED <<buffer, chunks, length, header_chunker, format, division>>

\* line 32
ReadLength ==
    /\ pc = "length"
    /\ LET c == claim_as(position, buffer, 4, "u32")
       IN  IF ~c.ok
           THEN Fail("ChunkerDone") /\ UNCHANGED <<position, length>>
           ELSE IF c.overflow
           THEN Fail("ArithmeticOverflow") /\ UNCHANGED length
                /\ position' = c.position
           ELSE /\ length' = c.value
                /\ position' = c.position
                /\ pc' = "data"
                /\ UNCHANGED outcome
    /\ UNCHANGED <<buffer, chunks, r_type, header_chunker, format, division>>

\* lines 33-34
ReadData ==
    /\ pc = "data"
    /\ LET c == claim(position, buffer, length)
       IN  IF ~c.ok
           THEN Fail("ChunkerDone") /\ UNCHANGED <<position, chunks>>
           ELSE /\ chunks' = Append(chunks, [type |-> r_type, data |-> c.slice])
                /\ position' = c.position
                /\ pc' = "loop"
                /\ UNCHANGED outcome
    /\ UNCHANGED <<buffer, r_type, length, header_chunker, format, division>>

\* the emptiness test written as chunks.len() <= 1
LoopExitOffByOne ==
    /\ pc = "loop"
    /\ done(position, buffer)
    /\ IF Len(chunks) <= 1
       THEN Fail("EmptyFile") /\ UNCHANGED header_chunker
       ELSE /\ pc' = "format"
            /\ header_chunker' = ChunkerNew(chunks[1].data)
            /\ UNCHANGED outcome
    /\ UNCHANGED <<buffer, position, chunks, r_type, length, format, division>>

\* lines 30, 37-41: the loop ends, the header chunker is created
LoopExit ==
    /\ pc = "loop"
    /\ done(position, buffer)
    /\ IF chunks = << >>
       THEN Fail("EmptyFile") /\ UNCHANGED header_chunker
       ELSE /\ pc' = "format"
            /\ header_chunker' = ChunkerNew(chunks[1].data)
            /\ UNCHANGED outcome
    /\ UNCHANGED <<buffer, position, chunks, r_type, length, format, division>>

\* line 42
ReadFormat ==
    /\ pc = "format"
    /\ LET c == claim_as(header_chunker.position, header_chunker.buffer, 2, "u16")
           f == FormatTryFrom(c.value)
       IN  IF ~c.ok
           THEN Fail("ChunkerDone") /\ UNCHANGED <<header_chunker, format>>
           ELSE IF c.overflow
           THEN Fail("ArithmeticOverflow") /\ UNCHANGED format
                /\ header_chunker' = [header_chunker EXCEPT !.position = c.position]
           ELSE IF ~f.ok
           THEN Fail("InvalidFormat") /\ UNCHANGED format
                /\ header_chunker' = [header_chunker EXCEPT !.position = c.position]
           ELSE /\ format' = f.format
                /\ header_chunker' = [header_chunker EXCEPT !.position = c.position]
                /\ pc' = "ntrks"
                /\ UNCHANGED outcome
    /\ UNCHANGED <<buffer, position, chunks, r_type, length, division>>

\* the track count read but not compared
ReadNtrksNoCheck ==
    /\ pc = "ntrks"
    /\ LET c == claim_as(header_chunker.position, header_chunker.buffer, 2, "usize")
       IN  IF ~c.ok
           THEN Fail("ChunkerDone") /\ UNCHANGED header_chunker
           ELSE /\ header_chunker' = [header_chunker EXCEPT !.position = c.position]
                /\ pc' = "division"
                /\ UNCHANGED outcome
    /\ UNCHANGED <<buffer, position, chunks, r_type, length, format, division>>

\* lines 44-58
ReadNtrks ==
    /\ pc = "ntrks"
    /\ LET c == claim_as(header_chunker.position, header_chunker.buffer, 2, "usize")
       IN  IF ~c.ok
           THEN Fail("ChunkerDone") /\ UNCHANGED header_chunker
           ELSE IF c.overflow
           THEN Fail("ArithmeticOverflow") /\ header_chunker' = [header_chunker EXCEPT !.position = c.position]
           ELSE IF c.value # TrackCount(chunks)
           THEN Fail("TrackCountMismatch") /\ header_chunker' = [header_chunker EXCEPT !.position = c.position]
           ELSE /\ header_chunker' = [header_chunker EXCEPT !.position = c.position]
                /\ pc' = "division"
                /\ UNCHANGED outcome
    /\ UNCHANGED <<buffer, position, chunks, r_type, length, format, division>>

\* lines 60-62
ReadDivision ==
    /\ pc = "division"
    /\ LET c == claim_as(header_chunker.position, header_chunker.buffer, 2, "i16")
           d == DivisionTryFrom(c.value)
       IN  IF ~c.ok
           THEN Fail("ChunkerDone") /\ UNCHANGED <<header_chunker, division>>
           ELSE IF c.overflow
           THEN Fail("ArithmeticOverflow") /\ UNCHANGED division
                /\ header_chunker' = [header_chunker EXCEPT !.position = c.position]
           ELSE IF ~d.ok
           THEN Fail("InvalidSmpteFormat") /\ UNCHANGED division
                /\ header_chunker' = [header_chunker EXCEPT !.position = c.position]
           ELSE /\ division' = d.division
                /\ header_chunker' = [header_chunker EXCEPT !.position = c.position]
                /\ outcome' = "Ok"
                /\ pc' = "done"
    /\ UNCHANGED <<buffer, position, chunks, r_type, length, format>>

Next ==
    \/ ReadType
    \/ ReadLength
    \/ ReadData
    \/ LoopExit
    \/ ReadFormat
    \/ ReadNtrks
    \/ ReadDivision

Spec == Init /\ [][Next]_vars

TypeOK ==
    /\ position \in 0..Len(buffer)
    /\ pc \in {"loop", "length", "data", "format", "ntrks", "division", "done"}
    /\ outcome \in {"Running", "Ok", "ChunkerDone", "EmptyFile", "InvalidFormat",
                    "TrackCountMismatch", "InvalidSmpteFormat", "ArithmeticOverflow"}

(***************************************************************************)
(* Division decoding over the whole 16-bit domain: a file that is one      *)
(* header chunk with format 0, ntrks 0 and any two division bytes.         *)
(***************************************************************************)
DivisionInit ==
    \E hi \in 0..255, lo \in 0..255 :
        Start(Encode(MThd, <<0, 0, 0, 0, hi, lo>>))

SpecDivision == DivisionInit /\ [][Next]_vars

(***************************************************************************)
(* Reference notions the properties are stated with.  They are written     *)
(* from the file layout (tag[4], length[4] big-endian, payload[length]),   *)
(* independently of the decoder above.                                     *)
(***************************************************************************)
BE16(p, i) == p[i] * 256 + p[i + 1]

BEValue32(p, i) == p[i] * 16777216 + p[i + 1] * 65536 + p[i + 2] * 256 + p[i + 3]

\* the tag "MTrk" as a 32-bit big-endian number
MTrkCode == 1297379947

\* the longest split of buf into complete chunks, and what is left over
RECURSIVE RefSplit(_)
RefSplit(buf) ==
    IF Len(buf) < 8
    THEN [chunks |-> << >>, rest |-> buf]
    ELSE LET l == BEValue32(buf, 5)
         IN  IF Len(buf) < 8 + l
             THEN [chunks |-> << >>, rest |-> buf]
             ELSE LET r == RefSplit(SubSeq(buf, 9 + l, Len(buf)))
                  IN  [chunks |-> <<[type |-> BEValue32(buf, 1),
                                     data |-> SubSeq(buf, 9, 8 + l)]>> \o r.chunks,
                       rest   |-> r.rest]

NumTaggedTrack(cs) == Cardinality({i \in DOMAIN cs : cs[i].type = MTrkCode})

\* the chunk loop ended without error and the header decoding has begun
LoopSucceeded == header_chunker.exists

\* MidiFile::read has returned, and it had got as far as the track count
\* check with a two-byte format and a two-byte ntrks field
TrackCountJudged ==
    /\ pc = "done"
    /\ LoopSucceeded
    /\ Len(chunks[1].data) >= 4
    /\ BE16(chunks[1].data, 1) \in {0, 1, 2}

SmpteCodes == {-24, -25, -29, -30}

SmpteOf(code) ==
    CASE code = -24 -> "Fps24"
      [] code = -25 -> "Fps25"
      [] code = -29 -> "Fps30Drop"
      [] code = -30 -> "Fps30"

(***************************************************************************)
(* C1: once the chunk loop has succeeded on a header payload of at least   *)
(* 4 bytes with a format code in {0,1,2}, the read fails with the track    *)
(* count mismatch exactly when the big-endian ntrks field differs from the *)
(* number of parsed chunks tagged "MTrk"; chunks with other tags do not    *)
(* count.                                                                  *)
(***************************************************************************)
C1_TrackCountMismatchIff ==
    TrackCountJudged =>
        ((outcome = "TrackCountMismatch")
            <=> (BE16(chunks[1].data, 3) # NumTaggedTrack(chunks)))

\* a mismatch that an unrecognized chunk would have hidden had it counted
C1_Witness ==
    /\ TrackCountJudged
    /\ outcome = "TrackCountMismatch"
    /\ \E i \in DOMAIN chunks : type_variant(chunks[i].type) = "Err"
    /\ BE16(chunks[1].data, 3) = Len(chunks) - 1

(***************************************************************************)
(* C2 (as claimed): a buffer that is a concatenation of k >= 1 complete    *)
(* chunks, payloads of length 0 allowed everywhere, passes the chunk loop  *)
(* without error and yields exactly those chunks in file order.            *)
(***************************************************************************)
C2_CompleteChunksDecode ==
    LET ref == RefSplit(buffer)
    IN  (/\ ref.rest = << >>
         /\ Len(ref.chunks) >= 1
         /\ pc \notin {"loop", "length", "data"})
        => (LoopSucceeded /\ chunks = ref.chunks)

(***************************************************************************)
(* C3 (as claimed): every buffer without a complete chunk, empty or not,   *)
(* fails with EmptyFile.                                                   *)
(***************************************************************************)
C3_ZeroChunksEmptyFile ==
    (pc = "done" /\ RefSplit(buffer).chunks = << >>) => outcome = "EmptyFile"

(***************************************************************************)
(* C3 (amended): the read fails with EmptyFile exactly when the buffer is  *)
(* empty.                                                                  *)
(***************************************************************************)
C3_EmptyFileIffEmptyBuffer ==
    pc = "done" => ((outcome = "EmptyFile") <=> (buffer = << >>))

C3_Witness ==
    /\ pc = "done"
    /\ buffer = << >>
    /\ outcome = "EmptyFile"

(***************************************************************************)
(* C4 (as claimed): the count compared with ntrks is taken over            *)
(* chunks[1..] only, chunk 0 is never counted.                             *)
(***************************************************************************)
C4_CountSkipsChunkZero ==
    TrackCountJudged =>
        ((outcome = "TrackCountMismatch")
            <=> (BE16(chunks[1].data, 3) # NumTaggedTrack(Tail(chunks))))

(***************************************************************************)
(* C4 (amended): chunk 0 is counted too: when chunk 0 carries the tag      *)
(* "MTrk" the count compared with ntrks is one more than the number of     *)
(* "MTrk" chunks after it.                                                 *)
(***************************************************************************)
C4_ChunkZeroCounted ==
    (TrackCountJudged /\ chunks[1].type = MTrkCode) =>
        ((outcome = "TrackCountMismatch")
            <=> (BE16(chunks[1].data, 3) # 1 + NumTaggedTrack(Tail(chunks))))

\* chunk 0 tagged "MTrk", one "MTrk" chunk after it, ntrks = 2 accepted
C4_Witness ==
    /\ TrackCountJudged
    /\ chunks[1].type = MTrkCode
    /\ NumTaggedTrack(Tail(chunks)) = 1
    /\ BE16(chunks[1].data, 3) = 2
    /\ outcome # "TrackCountMismatch"

(***************************************************************************)
(* C5: the division decoding by case over the two big-endian division      *)
(* bytes: a non-negative value is Metrical with that value; a negative     *)
(* value whose high byte is one of -24, -25, -29, -30 is TimeCode with the *)
(* matching SmpteFormat and the low byte as ticks per frame; any other     *)
(* negative value fails with InvalidSmpteFormat; the fold never overflows. *)
(***************************************************************************)
C5_DivisionByCase ==
    (/\ pc = "done"
     /\ LoopSucceeded
     /\ Len(chunks[1].data) >= 6
     /\ outcome \notin {"InvalidFormat", "TrackCountMismatch"})
    => LET hi == chunks[1].data[5]
           lo == chunks[1].data[6]
       IN  /\ outcome # "ArithmeticOverflow"
           /\ hi < 128 =>
                /\ outcome = "Ok"
                /\ division = [kind |-> "Metrical", smpte_format |-> "None",
                               ticks |-> hi * 256 + lo]
           /\ (hi >= 128 /\ hi - 256 \in SmpteCodes) =>
                /\ outcome = "Ok"
                /\ division = [kind |-> "TimeCode",
                               smpte_format |-> SmpteOf(hi - 256),
                               ticks |-> lo]
           /\ (hi >= 128 /\ hi - 256 \notin SmpteCodes) =>
                outcome = "InvalidSmpteFormat"

\* bytes E2 28
C5_Witness ==
    /\ pc = "done"
    /\ LoopSucceeded
    /\ Len(chunks[1].data) >= 6
    /\ chunks[1].data[5] = 226
    /\ chunks[1].data[6] = 40
    /\ outcome = "Ok"
    /\ division = [kind |-> "TimeCode", smpte_format |-> "Fps30", ticks |-> 40]

(***************************************************************************)
(* C6 (as claimed): a buffer that ends part-way through a chunk always     *)
(* fails with ChunkerDone.                                                 *)
(***************************************************************************)
C6_PartialChunkFails ==
    (pc = "done" /\ RefSplit(buffer).rest # << >>) => outcome = "ChunkerDone"

(***************************************************************************)
(* C6 (amended): a buffer that ends inside the tag, inside the length or   *)
(* right after the length of a chunk with a non-zero declared length fails *)
(* in the chunk loop with ChunkerDone; a buffer that ends after at least   *)
(* one payload byte of its last chunk passes the chunk loop, and the last  *)
(* chunk gets the payload bytes that are present.                          *)
(***************************************************************************)
C6_PartialChunkClamped ==
    LET ref == RefSplit(buffer)
        k == Len(ref.chunks)
    IN  (pc = "done" /\ ref.rest # << >>) =>
            IF Len(ref.rest) <= 8
            THEN outcome = "ChunkerDone" /\ ~LoopSucceeded
            ELSE /\ LoopSucceeded
                 /\ Len(chunks) = k + 1
                 /\ SubSeq(chunks, 1, k) = ref.chunks
                 /\ chunks[k + 1].type = BEValue32(ref.rest, 1)
                 /\ chunks[k + 1].data = SubSeq(ref.rest, 9, Len(ref.rest))
                 /\ Len(chunks[k + 1].data) < BEValue32(ref.rest, 5)

\* a file cut inside the payload of its last chunk that is read successfully
C6_Witness ==
    /\ pc = "done"
    /\ Len(RefSplit(buffer).rest) > 8
    /\ outcome = "Ok"

(***************************************************************************)
(* C7: every step of the chunk loop keeps the cursor within the buffer and *)
(* never moves it back, claiming the tag moves it forward, and the number  *)
(* of chunks read never exceeds the cursor position: the loop runs at most *)
(* buffer-length iterations.                                               *)
(***************************************************************************)
C7_LoopProgress ==
    [][/\ position' >= position
       /\ position' <= Len(buffer)
       /\ (pc = "loop" /\ pc' = "length") => position' > position
       /\ Len(chunks') <= position'
       /\ Len(chunks') <= Len(buffer)]_vars

\* an iteration with a declared payload length of 0 that did not fail
C7_Witness ==
    /\ pc = "loop"
    /\ Len(chunks) = 1
    /\ chunks[1].data = << >>
    /\ position < Len(buffer)

(***************************************************************************)
(* C8: on a full 6-byte header the checks are decided in the order format, *)
(* track count, division: a bad format code gives InvalidFormat whatever   *)
(* the other fields are, a good format with a mismatching ntrks gives      *)
(* TrackCountMismatch whatever the division is, InvalidSmpteFormat is only *)
(* reported when format and track count were accepted, and none of the     *)
(* three yields a division.                                                *)
(***************************************************************************)
C8_HeaderCheckOrder ==
    (pc = "done" /\ LoopSucceeded /\ Len(chunks[1].data) >= 6) =>
        LET fmt == BE16(chunks[1].data, 1)
            n   == BE16(chunks[1].data, 3)
        IN  /\ fmt \notin {0, 1, 2} => outcome = "InvalidFormat"
            /\ (fmt \in {0, 1, 2} /\ n # NumTaggedTrack(chunks))
                   => outcome = "TrackCountMismatch"
            /\ outcome = "InvalidSmpteFormat"
                   => (fmt \in {0, 1, 2} /\ n = NumTaggedTrack(chunks))
            /\ outcome \in {"InvalidFormat", "TrackCountMismatch", "InvalidSmpteFormat"}
                   => division = NoDivision

\* bad format, mismatching ntrks and invalid SMPTE code at once
C8_Witness ==
    /\ pc = "done"
    /\ LoopSucceeded
    /\ Len(chunks[1].data) >= 6
    /\ BE16(chunks[1].data, 1) = 3
    /\ BE16(chunks[1].data, 3) # NumTaggedTrack(chunks)
    /\ chunks[1].data[5] = 128
    /\ outcome = "InvalidFormat"

(***************************************************************************)
(* C9 (as claimed): a successful read leaves the header cursor at offset 6 *)
(* and never happens on a chunk 0 payload shorter than 6 bytes.            *)
(***************************************************************************)
C9_HeaderReadsSixBytes ==
    outcome = "Ok" =>
        (header_chunker.position = 6 /\ Len(chunks[1].data) >= 6)

(***************************************************************************)
(* C10: a claim on either cursor fails exactly when the cursor was already *)
(* at or past the end of its buffer, and then leaves the position alone;   *)
(* otherwise the position becomes min(position + n, length) and the slice  *)
(* claimed is the bytes in between; so each position stays within          *)
(* 0..length and never decreases.                                          *)
(***************************************************************************)
C10_ClaimContract ==
    [][/\ (pc \in {"length", "data"} \/ (pc = "loop" /\ position < Len(buffer))) =>
            LET n == IF pc = "data" THEN length ELSE 4
                end == Min(position + n, Len(buffer))
            IN  /\ (outcome' = "ChunkerDone") <=> (position >= Len(buffer))
                /\ position >= Len(buffer) => position' = position
                /\ position < Len(buffer) => position' = end
                /\ (pc = "data" /\ position < Len(buffer)) =>
                       /\ Len(chunks') = Len(chunks) + 1
                       /\ chunks'[Len(chunks')].data = SubSeq(buffer, position + 1, end)
       /\ pc \in {"format", "ntrks", "division"} =>
            LET l == Len(header_chunker.buffer)
                p == header_chunker.position
            IN  /\ p >= l => (outcome' = "ChunkerDone" /\ header_chunker' = header_chunker)
                /\ p < l => (/\ outcome' # "ChunkerDone"
                             /\ header_chunker'.position = Min(p + 2, l))
       /\ 0 <= position' /\ position' <= Len(buffer) /\ position <= position'
       /\ 0 <= header_chunker'.position
       /\ header_chunker'.position <= Len(header_chunker'.buffer)
       /\ (header_chunker.exists => header_chunker.position <= header_chunker'.position)
      ]_vars

\* a claim that was cut short by the end of the buffer
C10_Witness ==
    /\ pc = "loop"
    /\ chunks # << >>
    /\ Len(chunks[Len(chunks)].data) < length
    /\ position = Len(buffer)
====
